---- MODULE Spec2Model ----
(***************************************************************************)
(* The local persistence and synchronization layer of kototeku2025app:     *)
(*   db/db-service.ts      the connection provider (getDatabaseConnection) *)
(*   dao/items-dao.ts      the record access layer (ItemsDAO)              *)
(*   managers/ItemsManager the cache manager (snapshot + listeners)        *)
(*                                                                         *)
(* JavaScript runs every callback to completion: one action of this module *)
(* is one run of the event loop's job, from the point where a promise      *)
(* continuation (or a caller) enters the code to the next await.           *)
(***************************************************************************)
EXTENDS Integers, Sequences, FiniteSets, TLC

\* Callers of getDatabaseConnection() in the provider-only specification.
MaxCallers == 4
\* Manager calls (loadItems, addItem, ...) issued in the manager's specifications.
MaxTasks == 2
\* The longest listener list explored.
MaxSubs == 2

VARIABLES
  _db,            \* db-service.ts `_db`: 0 is null, else the connection object's identity
  _dbPromise,     \* db-service.ts `_dbPromise`: 0 is null, else the index of the attempt it belongs to
  attempts,       \* every initialization IIFE started so far: [st, conn]
  tasks,          \* the asynchronous calls in flight or finished, one record per caller
  storage,        \* the rows of table `items` in the database file
  now,            \* the last value Date.now() returned
  items,          \* ItemsManager.items, the snapshot
  dataListeners,  \* ItemsManager.dataListeners
  notified        \* the listener invocations <<listener, snapshot>> made by the last step, in order

vars == <<_db, _dbPromise, attempts, tasks, storage, now, items, dataListeners, notified>>

provVars == <<_db, _dbPromise, attempts>>
mgrVars == <<items, dataListeners>>

----------------------------------------------------------------------------
\* Values

\* SQL NULL / JavaScript null for a nullable column: the empty tuple; a value v is <<v>>.
Null == <<>>
Some(v) == <<v>>

\* The errors that travel through the layers.
OpenError == "OpenError"     \* openDatabaseAsync rejected
ExecError == "ExecError"     \* connection.execAsync(INIT_SQL) rejected
InitError == "InitError"     \* new Error("Failed to initialize database connection.")
SqlError == "SqlError"       \* a CRUD statement (getAllAsync / runAsync) rejected
NoError == "none"

Range(s) == {s[i] : i \in 1..Len(s)}

SeqFilter(s, Keep(_)) ==
  LET F[i \in 0..Len(s)] ==
        IF i = 0 THEN <<>>
        ELSE IF Keep(s[i]) THEN Append(F[i - 1], s[i]) ELSE F[i - 1]
  IN F[Len(s)]

----------------------------------------------------------------------------
\* Connection provider (db/db-service.ts)

\* An attempt is one run of the IIFE of getDatabaseConnection: "open" while
\* openDatabaseAsync is pending, "exec" while execAsync(INIT_SQL) is pending,
\* then "ok", or "openfail"/"execfail" after the catch block ran.
InFlight == {a \in 1..Len(attempts) : attempts[a].st \in {"open", "exec"}}
Failed == {a \in 1..Len(attempts) : attempts[a].st \in {"openfail", "execfail"}}
Succeeded == {a \in 1..Len(attempts) : attempts[a].st = "ok"}
\* Calls of openDatabaseAsync and executions of INIT_SQL so far.
OpenCount == Len(attempts)
ExecCount == Cardinality({a \in 1..Len(attempts) : attempts[a].st \in {"exec", "ok", "execfail"}})

ProviderState ==
  IF _db # 0 THEN "Ready" ELSE IF _dbPromise # 0 THEN "Initializing" ELSE "Uninitialized"

\* if (_db) return _db;
HasCached == _db # 0

\* if (_dbPromise) return _dbPromise;
HasPendingMutNoCoalesce == FALSE
HasPending == _dbPromise # 0

\* The synchronous part of getDatabaseConnection(): what the caller ends up
\* awaiting.  wait = 0 with db set is the cached handle; wait = a is the
\* promise of attempt a.  A first call runs the IIFE up to its first await
\* (openDatabaseAsync is an async function: it never throws synchronously)
\* and installs its promise in _dbPromise.
getDatabaseConnection(t, after) ==
  IF HasCached
    THEN /\ tasks' = [tasks EXCEPT ![t] = [after EXCEPT !.wait = 0, !.db = _db]]
         /\ UNCHANGED provVars
    ELSE IF HasPending
      THEN /\ tasks' = [tasks EXCEPT ![t] = [after EXCEPT !.wait = _dbPromise, !.db = 0]]
           /\ UNCHANGED provVars
      ELSE /\ attempts' = Append(attempts, [st |-> "open", conn |-> 0])
           /\ _dbPromise' = Len(attempts) + 1
           /\ tasks' = [tasks EXCEPT ![t] = [after EXCEPT !.wait = Len(attempts) + 1, !.db = 0]]
           /\ UNCHANGED _db

\* _db = connection; _dbPromise = null; return connection;
InitSucceededMutKeepPromise(a) ==
  /\ _db' = attempts[a].conn
  /\ UNCHANGED _dbPromise
InitSucceededMutNoCache(a) ==
  /\ _dbPromise' = 0
  /\ UNCHANGED _db
InitSucceeded(a) ==
  /\ _db' = attempts[a].conn
  /\ _dbPromise' = 0

\* catch (e) { _dbPromise = null; throw new Error(...) }
InitFailedMutPoison ==
  UNCHANGED <<_db, _dbPromise>>
InitFailed ==
  /\ _dbPromise' = 0
  /\ UNCHANGED _db

\* How the promise a caller awaits has settled: "pending", "ok" or "failed".
\* (The catch block rethrows; one that did not would fulfil the promise.)
SettledMutSwallow(k) ==
  IF k.wait = 0 THEN "ok"
  ELSE IF attempts[k.wait].st \in {"ok", "openfail", "execfail"} THEN "ok"
  ELSE "pending"
SettledMutBeforeSchema(k) ==
  IF k.wait = 0 THEN "ok"
  ELSE IF attempts[k.wait].st \in {"exec", "ok"} THEN "ok"
  ELSE IF attempts[k.wait].st \in {"openfail", "execfail"} THEN "failed"
  ELSE "pending"
Settled(k) ==
  IF k.wait = 0 THEN "ok"
  ELSE IF attempts[k.wait].st = "ok" THEN "ok"
  ELSE IF attempts[k.wait].st \in {"openfail", "execfail"} THEN "failed"
  ELSE "pending"
\* The value it resolved with.
Handle(k) == IF k.wait = 0 THEN k.db ELSE attempts[k.wait].conn

\* catch (e): the error the IIFE caught, the one openDatabaseAsync or
\* execAsync rejected with.
Caught(k) == IF attempts[k.wait].st = "openfail" THEN OpenError ELSE ExecError
\* throw new Error("Failed to initialize database connection."): what the
\* promise of a failed attempt rejects with.  e is logged, not rethrown.
RejectionMutRethrow(k) == Caught(k)
Rejection(k) == InitError

\* Callers whose await can resume: the promise they await has settled.  The
\* resumption is a microtask, and the event loop runs every queued microtask
\* before it delivers the next I/O completion.
Resumable ==
  {t \in DOMAIN tasks : tasks[t].pc \in {"conn", "lconn"} /\ Settled(tasks[t]) # "pending"}

\* The attempt whose IIFE is suspended at an await.  The IIFE does not read
\* _dbPromise: it continues whatever the marker holds.
Suspended(st) == {a \in 1..Len(attempts) : attempts[a].st = st}

\* openDatabaseAsync(DB_NAME) resolves with a new connection object; the IIFE
\* goes on to connection.execAsync(INIT_SQL).
OpenOk ==
  \E a \in Suspended("open") :
    /\ Resumable = {}
    /\ attempts' = [attempts EXCEPT ![a] = [st |-> "exec", conn |-> a]]
    /\ notified' = <<>>
    /\ UNCHANGED <<_db, _dbPromise, tasks, storage, now, mgrVars>>

\* openDatabaseAsync(DB_NAME) rejects: the catch block runs.
OpenFail ==
  \E a \in Suspended("open") :
    /\ Resumable = {}
    /\ attempts' = [attempts EXCEPT ![a].st = "openfail"]
    /\ InitFailed
    /\ notified' = <<>>
    /\ UNCHANGED <<tasks, storage, now, mgrVars>>

\* execAsync(INIT_SQL) resolves: CREATE TABLE IF NOT EXISTS leaves existing rows alone.
ExecOk ==
  \E a \in Suspended("exec") :
    /\ Resumable = {}
    /\ attempts' = [attempts EXCEPT ![a].st = "ok"]
    /\ InitSucceeded(a)
    /\ notified' = <<>>
    /\ UNCHANGED <<tasks, storage, now, mgrVars>>

\* execAsync(INIT_SQL) rejects: the catch block runs.
ExecFail ==
  \E a \in Suspended("exec") :
    /\ Resumable = {}
    /\ attempts' = [attempts EXCEPT ![a].st = "execfail"]
    /\ InitFailed
    /\ notified' = <<>>
    /\ UNCHANGED <<tasks, storage, now, mgrVars>>

----------------------------------------------------------------------------
\* Callers

NoItem == [title |-> "", description |-> Null, is_done |-> FALSE, datetime_at |-> Null]

IdleTask ==
  [op |-> "none", pc |-> "idle", wait |-> 0, db |-> 0, id |-> 0, item |-> NoItem,
   at |-> 0, ts |-> 0, res |-> <<>>, err |-> NoError]

\* A manager call that has settled: what is left of it is which call it was
\* and how it ended.
Resolved(k) == [IdleTask EXCEPT !.op = k.op, !.pc = "resolved"]
Rejected(k, e) == [IdleTask EXCEPT !.op = k.op, !.pc = "rejected", !.err = e]

\* Calls are numbered in the order in which they are issued.
NextToCall(t) == tasks[t].pc = "idle" /\ (IF t = 1 THEN TRUE ELSE tasks[t - 1].pc # "idle")

Callers == 1..MaxCallers

\* A direct call of getDatabaseConnection(), as hooks/use-database.ts makes it.
CallConnection(t) ==
  /\ NextToCall(t)
  /\ getDatabaseConnection(t, [IdleTask EXCEPT !.op = "conn", !.pc = "conn"])
  /\ notified' = <<>>
  /\ UNCHANGED <<storage, now, mgrVars>>

\* The promise returned to a direct caller settles.
ConnectionSettled(t) ==
  /\ tasks[t].op = "conn"
  /\ tasks[t].pc = "conn"
  /\ Settled(tasks[t]) # "pending"
  /\ tasks' = [tasks EXCEPT ![t] =
       IF Settled(tasks[t]) = "ok"
         THEN [@ EXCEPT !.pc = "resolved", !.db = Handle(tasks[t])]
         ELSE [@ EXCEPT !.pc = "rejected", !.err = Rejection(tasks[t])]]
  /\ notified' = <<>>
  /\ UNCHANGED <<provVars, storage, now, mgrVars>>

----------------------------------------------------------------------------
\* Storage: table `items` as SQLite keeps it (dao/items-dao.ts statements)

\* A row is [id, is_done, title, description, updated_at, datetime_at];
\* is_done is stored as the integer 0 or 1.
BoolToInt(b) == IF b THEN 1 ELSE 0

Max(S) == CHOOSE x \in S : \A y \in S : y <= x

\* id INTEGER PRIMARY KEY NOT NULL without AUTOINCREMENT: an INSERT that gives
\* no id gets one more than the largest id in the table (1 in an empty table).
NewRowIdMutFirst(rows) == 1
NewRowId(rows) == IF rows = {} THEN 1 ELSE Max({r.id : r \in rows}) + 1

\* ORDER BY datetime_at ASC: SQLite sorts NULL before every value.
SqlLessEqMutNullsLast(a, b) == IF b = Null THEN TRUE ELSE (a # Null /\ a[1] <= b[1])
SqlLessEq(a, b) == IF a = Null THEN TRUE ELSE (b # Null /\ a[1] <= b[1])

Perms(S) ==
  {s \in [1..Cardinality(S) -> S] : \A i, j \in 1..Cardinality(S) : i # j => s[i] # s[j]}

\* SELECT * FROM items ORDER BY datetime_at ASC: the results the engine may
\* give (rows with equal datetime_at come in an order SQL leaves open).
SelectAll(rows) ==
  {s \in Perms(rows) :
     \A i \in 1..(Len(s) - 1) : SqlLessEq(s[i].datetime_at, s[i + 1].datetime_at)}

\* INSERT INTO items (title, description, updated_at, datetime_at) VALUES (?, ?, ?, ?)
\* is_done is not among the columns: the row gets DEFAULT 0.
InsertRowMutDropDescription(rows, n, ts) ==
  rows \cup {[id |-> NewRowId(rows), is_done |-> 0, title |-> n.title,
              description |-> Null, updated_at |-> ts, datetime_at |-> n.datetime_at]}
InsertRow(rows, n, ts) ==
  rows \cup {[id |-> NewRowId(rows), is_done |-> 0, title |-> n.title,
              description |-> n.description, updated_at |-> ts,
              datetime_at |-> n.datetime_at]}

\* UPDATE items SET is_done = ?, title = ?, description = ?, updated_at = ?, datetime_at = ? WHERE id = ?
UpdateRowMutKeepTimestamp(rows, id, n, ts) ==
  {IF r.id = id
     THEN [id |-> r.id, is_done |-> BoolToInt(n.is_done), title |-> n.title,
           description |-> n.description, updated_at |-> r.updated_at,
           datetime_at |-> n.datetime_at]
     ELSE r : r \in rows}
UpdateRowMutKeepDone(rows, id, n, ts) ==
  {IF r.id = id
     THEN [id |-> r.id, is_done |-> r.is_done, title |-> n.title,
           description |-> n.description, updated_at |-> ts,
           datetime_at |-> n.datetime_at]
     ELSE r : r \in rows}
UpdateRow(rows, id, n, ts) ==
  {IF r.id = id
     THEN [id |-> r.id, is_done |-> BoolToInt(n.is_done), title |-> n.title,
           description |-> n.description, updated_at |-> ts,
           datetime_at |-> n.datetime_at]
     ELSE r : r \in rows}

\* DELETE FROM items WHERE id = ?
DeleteRowMutAll(rows, id) == {}
DeleteRow(rows, id) == {r \in rows : r.id # id}

\* SELECT * FROM items WHERE id = ?: id is the primary key, so at most one row.
SelectById(rows, id) ==
  IF \E r \in rows : r.id = id THEN {<<r>> : r \in {x \in rows : x.id = id}} ELSE {<<>>}

\* The rows getAllAsync may resolve with for the SELECT of call k
\* (getItemById's or getAllItems').
Query(rows, k) == IF k.op = "get" THEN SelectById(rows, k.id) ELSE SelectAll(rows)

\* What runAsync resolves with, as the DAO function reads it:
\* result.lastInsertRowId of the INSERT, result.changes of an UPDATE or
\* DELETE ... WHERE id = ? (the number of rows the WHERE matched), nothing
\* of clearAllItems' DELETE.
StatementResult(rows, k) ==
  CASE k.op = "add" -> <<NewRowId(rows)>>
    [] k.op \in {"update", "delete"} -> <<Cardinality({r \in rows : r.id = k.id})>>
    [] OTHER -> <<>>

\* The table after the statement of operation k has run.
EffectMutClearDone(rows, k) ==
  CASE k.op = "add" -> InsertRow(rows, k.item, k.ts)
    [] k.op = "update" -> UpdateRow(rows, k.id, k.item, k.ts)
    [] k.op = "delete" -> DeleteRow(rows, k.id)
    [] k.op = "clear" -> {r \in rows : r.is_done = 0}
    [] OTHER -> rows
Effect(rows, k) ==
  CASE k.op = "add" -> InsertRow(rows, k.item, k.ts)
    [] k.op = "update" -> UpdateRow(rows, k.id, k.item, k.ts)
    [] k.op = "delete" -> DeleteRow(rows, k.id)
    [] k.op = "clear" -> {}
    [] OTHER -> rows

----------------------------------------------------------------------------
\* Cache manager (managers/ItemsManager.ts) over the DAO (dao/items-dao.ts)

Tasks == 1..MaxTasks
\* Two listener functions: enough for a list that holds one function twice
\* and one that holds different functions.
Listeners == {1, 2}

ItemA == [title |-> "A", description |-> Null, is_done |-> FALSE, datetime_at |-> Null]
ItemB == [title |-> "B", description |-> Some("d"), is_done |-> TRUE, datetime_at |-> Some(1)]
NewItems == {ItemA, ItemB}

\* What the database file may hold when the process starts: nothing, or a
\* row an earlier run of the application wrote.
OldRow ==
  [id |-> 1, is_done |-> 0, title |-> "P", description |-> Null, updated_at |-> 0,
   datetime_at |-> Some(2)]
OldRow2 ==
  [id |-> 2, is_done |-> 1, title |-> "Q", description |-> Some("d"), updated_at |-> 0,
   datetime_at |-> Some(2)]
InitialStores == {{}, {OldRow}, {OldRow, OldRow2}}
\* The ids the update and delete calls are tried with.
Ids == 1..2

\* this.dataListeners.push(dataListener)
Pushed(l) == Append(dataListeners, l)

\* this.dataListeners.filter(l => l !== dataListener)
FilteredMutAll(l) == <<>>
Filtered(l) == SeqFilter(dataListeners, LAMBDA x : x # l)

\* notifyDataChange(): dataListeners.forEach(listener => listener(this.items)),
\* as the sequence of invocations <<listener, snapshot>> it makes.
NotifyDataChangeMutReverse(snapshot) ==
  [i \in 1..Len(dataListeners) |-> <<dataListeners[Len(dataListeners) + 1 - i], snapshot>>]
NotifyDataChangeMutTwice(snapshot) ==
  [i \in 1..(2 * Len(dataListeners)) |->
     <<dataListeners[((i - 1) % Len(dataListeners)) + 1], snapshot>>]
NotifyDataChange(snapshot) ==
  [i \in 1..Len(dataListeners) |-> <<dataListeners[i], snapshot>>]

\* dataListener(this.items), the call subscribe() makes before it returns.
InitialCall(l) == << <<l, items>> >>

\* subscribe(dataListener): push, call the listener with this.items, return
\* the unsubscribe closure.
Subscribe(l) ==
  /\ Len(dataListeners) < MaxSubs
  /\ dataListeners' = Pushed(l)
  /\ notified' = InitialCall(l)
  /\ UNCHANGED <<provVars, tasks, storage, now, items>>

\* A call of the closure subscribe(l) returned.  The closure exists once l
\* has subscribed; called when l is not in the list it changes nothing, so
\* only the calls that find l are steps.
Unsubscribe(l) ==
  /\ l \in Range(dataListeners)
  /\ dataListeners' = Filtered(l)
  /\ notified' = <<>>
  /\ UNCHANGED <<provVars, tasks, storage, now, items>>

\* The manager methods up to their first await: each calls its DAO function,
\* which calls getDatabaseConnection().
LoadItems(t) ==
  /\ NextToCall(t)
  /\ getDatabaseConnection(t, [IdleTask EXCEPT !.op = "load", !.pc = "lconn"])
  /\ notified' = <<>>
  /\ UNCHANGED <<storage, now, mgrVars>>

AddItem(t, n) ==
  /\ NextToCall(t)
  /\ getDatabaseConnection(t, [IdleTask EXCEPT !.op = "add", !.pc = "conn", !.item = n])
  /\ notified' = <<>>
  /\ UNCHANGED <<storage, now, mgrVars>>

DeleteItem(t, id) ==
  /\ NextToCall(t)
  /\ getDatabaseConnection(t, [IdleTask EXCEPT !.op = "delete", !.pc = "conn", !.id = id])
  /\ notified' = <<>>
  /\ UNCHANGED <<storage, now, mgrVars>>

UpdateItem(t, id, n) ==
  /\ NextToCall(t)
  /\ getDatabaseConnection(t, [IdleTask EXCEPT !.op = "update", !.pc = "conn", !.id = id, !.item = n])
  /\ notified' = <<>>
  /\ UNCHANGED <<storage, now, mgrVars>>

ClearAllItems(t) ==
  /\ NextToCall(t)
  /\ getDatabaseConnection(t, [IdleTask EXCEPT !.op = "clear", !.pc = "conn"])
  /\ notified' = <<>>
  /\ UNCHANGED <<storage, now, mgrVars>>

\* Date.now(): the readings when the clock has advanced since the last one.
LaterReadings == {now + 1}

\* `const db = await getDatabaseConnection()` resumes in a DAO function: a
\* rejection leaves the DAO function (the await is outside its try) and is
\* rethrown by the manager's catch blocks; otherwise the statement is issued,
\* insertItem and updateItem reading the clock for updated_at (ts is what
\* Date.now() returns to them).
DaoConnected(t, ts) ==
  /\ tasks[t].pc \in {"conn", "lconn"}
  /\ tasks[t].op # "conn"
  /\ Settled(tasks[t]) # "pending"
  /\ notified' = <<>>
  /\ UNCHANGED <<provVars, storage, mgrVars>>
  /\ IF Settled(tasks[t]) = "failed"
       THEN /\ tasks' = [tasks EXCEPT ![t] = Rejected(tasks[t], Rejection(tasks[t]))]
            /\ UNCHANGED now
       ELSE IF tasks[t].pc = "conn" /\ tasks[t].op \in {"add", "update"}
         THEN /\ now' = ts
              /\ tasks' = [tasks EXCEPT ![t] =
                   [@ EXCEPT !.pc = "stmt", !.db = Handle(tasks[t]), !.ts = ts]]
         ELSE /\ tasks' = [tasks EXCEPT ![t] =
                   [@ EXCEPT !.pc = IF tasks[t].pc = "conn" THEN "stmt" ELSE "lstmt",
                             !.db = Handle(tasks[t])]]
              /\ UNCHANGED now

\* The engine runs the statement of a mutation (runAsync) and its promise resolves.
StatementOk(t) ==
  /\ tasks[t].pc = "stmt"
  /\ storage' = Effect(storage, tasks[t])
  /\ tasks' = [tasks EXCEPT ![t] =
       [@ EXCEPT !.pc = "sret", !.res = StatementResult(storage, tasks[t])]]
  /\ notified' = <<>>
  /\ UNCHANGED <<provVars, now, mgrVars>>

\* The statement fails and its promise rejects; the table is as it was.
StatementFail(t) ==
  /\ tasks[t].pc = "stmt"
  /\ tasks' = [tasks EXCEPT ![t] = [@ EXCEPT !.pc = "sret", !.err = SqlError]]
  /\ notified' = <<>>
  /\ UNCHANGED <<provVars, storage, now, mgrVars>>

\* addItem / deleteItem / updateItem / clearAllItems resume after
\* `await ItemsDAO.<mutation>(...)`: on an error the DAO's and the manager's
\* catch blocks rethrow it; otherwise loadItems() is called, which calls
\* getAllItems(), which calls getDatabaseConnection().
MutationFailedMutReloadAnyway(t) ==
  /\ getDatabaseConnection(t, [tasks[t] EXCEPT !.pc = "lconn", !.err = NoError])
MutationFailed(t) ==
  /\ tasks' = [tasks EXCEPT ![t] = Rejected(tasks[t], tasks[t].err)]
  /\ UNCHANGED provVars

MutationReturned(t) ==
  /\ tasks[t].pc = "sret"
  /\ Resumable = {}
  /\ IF tasks[t].err # NoError
       THEN MutationFailed(t)
       ELSE getDatabaseConnection(t, [tasks[t] EXCEPT !.pc = "lconn"])
  /\ notified' = <<>>
  /\ UNCHANGED <<storage, now, mgrVars>>

\* The engine runs the SELECT of getAllItems or getItemById (getAllAsync) and
\* its promise resolves.
SelectOk(t) ==
  /\ tasks[t].pc = "lstmt"
  /\ \E rows \in Query(storage, tasks[t]) :
       tasks' = [tasks EXCEPT ![t] = [@ EXCEPT !.pc = "lret", !.res = rows]]
  /\ notified' = <<>>
  /\ UNCHANGED <<provVars, storage, now, mgrVars>>

\* The SELECT fails and its promise rejects.
SelectFail(t) ==
  /\ tasks[t].pc = "lstmt"
  /\ tasks' = [tasks EXCEPT ![t] = [@ EXCEPT !.pc = "lret", !.err = SqlError]]
  /\ notified' = <<>>
  /\ UNCHANGED <<provVars, storage, now, mgrVars>>

\* loadItems' catch block (and the calling mutation's): log and rethrow.
LoadFailedMutClear(t) ==
  /\ tasks' = [tasks EXCEPT ![t] = Rejected(tasks[t], tasks[t].err)]
  /\ items' = <<>>
  /\ notified' = NotifyDataChange(<<>>)
LoadFailedMutBroadcastEmpty(t) ==
  /\ tasks' = [tasks EXCEPT ![t] = Rejected(tasks[t], tasks[t].err)]
  /\ UNCHANGED items
  /\ notified' = NotifyDataChange(<<>>)
LoadFailedMutSwallow(t) ==
  /\ tasks' = [tasks EXCEPT ![t] = Resolved(tasks[t])]
  /\ UNCHANGED items
  /\ notified' = <<>>
LoadFailed(t) ==
  /\ tasks' = [tasks EXCEPT ![t] = Rejected(tasks[t], tasks[t].err)]
  /\ UNCHANGED items
  /\ notified' = <<>>

\* this.items = <result>; this.notifyDataChange();
LoadSucceededMutNoStore(t) ==
  /\ UNCHANGED items
  /\ notified' = NotifyDataChange(items)
  /\ tasks' = [tasks EXCEPT ![t] = Resolved(tasks[t])]
LoadSucceeded(t) ==
  /\ items' = tasks[t].res
  /\ notified' = NotifyDataChange(tasks[t].res)
  /\ tasks' = [tasks EXCEPT ![t] = Resolved(tasks[t])]

\* loadItems resumes after `await ItemsDAO.getAllItems()`.
LoadReturned(t) ==
  /\ tasks[t].pc = "lret"
  /\ Resumable = {}
  /\ IF tasks[t].err # NoError THEN LoadFailed(t) ELSE LoadSucceeded(t)
  /\ UNCHANGED <<provVars, storage, now, dataListeners>>

\* The process starts with nothing connected, loaded or subscribed, over
\* whatever database file is there.
InitOver(stores) ==
  /\ _db = 0
  /\ _dbPromise = 0
  /\ attempts = <<>>
  /\ tasks = [t \in Tasks |-> IdleTask]
  /\ storage \in stores
  /\ now = 0
  /\ items = <<>>
  /\ dataListeners = <<>>
  /\ notified = <<>>

Init == InitOver(InitialStores)

\* Reloads and subscriptions: MaxTasks calls of loadItems(), issued at any
\* time (also while another is in flight), listeners coming and going, the
\* database failing to open or to answer at any point.
Next ==
  \/ \E l \in Listeners : Subscribe(l)
  \/ \E l \in Listeners : Unsubscribe(l)
  \/ \E t \in Tasks : LoadItems(t)
  \/ OpenOk
  \/ OpenFail
  \/ ExecOk
  \/ ExecFail
  \/ \E t \in Tasks : DaoConnected(t, now)
  \/ \E t \in Tasks : SelectOk(t)
  \/ \E t \in Tasks : SelectFail(t)
  \/ \E t \in Tasks : LoadReturned(t)

Spec == Init /\ [][Next]_vars

\* No manager call is in flight.
Quiet == \A u \in DOMAIN tasks : tasks[u].pc \in {"idle", "resolved", "rejected"}

\* Mutations: MaxTasks manager calls of any kind, each issued when the one
\* before has settled (the view-binding hook's callers await each call), any
\* statement failing; the database opens, and the clock has moved on
\* between two statements.
NextSeq ==
  \/ \E l \in Listeners : Subscribe(l)
  \/ \E l \in Listeners : Unsubscribe(l)
  \/ \E t \in Tasks : Quiet /\ LoadItems(t)
  \/ \E t \in Tasks, n \in NewItems : Quiet /\ AddItem(t, n)
  \/ \E t \in Tasks, id \in Ids : Quiet /\ DeleteItem(t, id)
  \/ \E t \in Tasks, id \in Ids : Quiet /\ UpdateItem(t, id, ItemB)
  \/ \E t \in Tasks : Quiet /\ ClearAllItems(t)
  \/ OpenOk
  \/ ExecOk
  \/ \E t \in Tasks, ts \in LaterReadings : DaoConnected(t, ts)
  \/ \E t \in Tasks : StatementOk(t)
  \/ \E t \in Tasks : StatementFail(t)
  \/ \E t \in Tasks : MutationReturned(t)
  \/ \E t \in Tasks : SelectOk(t)
  \/ \E t \in Tasks : SelectFail(t)
  \/ \E t \in Tasks : LoadReturned(t)

InitSeq == InitOver({{}, {OldRow}})

SpecSeq == InitSeq /\ [][NextSeq]_vars

----------------------------------------------------------------------------
\* The record access layer on its own (dao/items-dao.ts): MaxDaoCalls calls
\* of the ItemsDAO functions by a caller that awaits each one, as the screens
\* that use the DAO directly do.

\* The longest sequence of DAO calls explored.
MaxDaoCalls == 3

DaoCalls == 1..MaxDaoCalls

\* The object TaskItem's handleToggleDone passes to updateItem: a whole Item
\* ({...item, is_done: ...}), so it carries an id and an updated_at as well.
ItemC ==
  [id |-> 9, updated_at |-> 9, title |-> "C", description |-> Null, is_done |-> TRUE,
   datetime_at |-> Some(3)]

\* The DAO functions up to their first await, `await getDatabaseConnection()`.
\* `at` keeps the clock at the time of the call.
DaoGetAllItems(t) ==
  /\ NextToCall(t)
  /\ getDatabaseConnection(t, [IdleTask EXCEPT !.op = "load", !.pc = "lconn", !.at = now])
  /\ notified' = <<>>
  /\ UNCHANGED <<storage, now, mgrVars>>

DaoGetItemById(t, id) ==
  /\ NextToCall(t)
  /\ getDatabaseConnection(t, [IdleTask EXCEPT !.op = "get", !.pc = "lconn", !.id = id, !.at = now])
  /\ notified' = <<>>
  /\ UNCHANGED <<storage, now, mgrVars>>

DaoInsertItem(t, n) ==
  /\ NextToCall(t)
  /\ getDatabaseConnection(t, [IdleTask EXCEPT !.op = "add", !.pc = "conn", !.item = n, !.at = now])
  /\ notified' = <<>>
  /\ UNCHANGED <<storage, now, mgrVars>>

DaoDeleteItem(t, id) ==
  /\ NextToCall(t)
  /\ getDatabaseConnection(t, [IdleTask EXCEPT !.op = "delete", !.pc = "conn", !.id = id, !.at = now])
  /\ notified' = <<>>
  /\ UNCHANGED <<storage, now, mgrVars>>

DaoUpdateItem(t, id, n) ==
  /\ NextToCall(t)
  /\ getDatabaseConnection(t,
       [IdleTask EXCEPT !.op = "update", !.pc = "conn", !.id = id, !.item = n, !.at = now])
  /\ notified' = <<>>
  /\ UNCHANGED <<storage, now, mgrVars>>

DaoClearAllItems(t) ==
  /\ NextToCall(t)
  /\ getDatabaseConnection(t, [IdleTask EXCEPT !.op = "clear", !.pc = "conn", !.at = now])
  /\ notified' = <<>>
  /\ UNCHANGED <<storage, now, mgrVars>>

\* What the DAO function returns once its statement has resolved with res:
\* getAllItems the rows; getItemById `result[0] || null`; insertItem
\* lastInsertRowId; updateItem and deleteItem result.changes; clearAllItems
\* nothing.
ReturnValue(k) ==
  IF k.op = "get" THEN (IF k.res = <<>> THEN Null ELSE Some(k.res[1])) ELSE k.res

\* The DAO function resumes after its statement's await and its promise
\* settles for a direct caller: the catch block rethrows the statement's
\* error, otherwise the value is returned.
DaoReturnedMutRetry(t) ==
  /\ tasks[t].pc \in {"sret", "lret"}
  /\ Resumable = {}
  /\ tasks' = [tasks EXCEPT ![t] =
       IF tasks[t].err # NoError
         THEN [@ EXCEPT !.pc = IF tasks[t].pc = "sret" THEN "stmt" ELSE "lstmt",
                        !.err = NoError]
         ELSE [@ EXCEPT !.pc = "resolved", !.res = ReturnValue(tasks[t])]]
  /\ notified' = <<>>
  /\ UNCHANGED <<provVars, storage, now, mgrVars>>
DaoReturned(t) ==
  /\ tasks[t].pc \in {"sret", "lret"}
  /\ Resumable = {}
  /\ tasks' = [tasks EXCEPT ![t] =
       IF tasks[t].err # NoError
         THEN Rejected(tasks[t], tasks[t].err)
         ELSE [@ EXCEPT !.pc = "resolved", !.res = ReturnValue(tasks[t])]]
  /\ notified' = <<>>
  /\ UNCHANGED <<provVars, storage, now, mgrVars>>

InitDao ==
  /\ _db = 0
  /\ _dbPromise = 0
  /\ attempts = <<>>
  /\ tasks = [t \in DaoCalls |-> IdleTask]
  /\ storage \in {{}, {OldRow}}
  /\ now = 0
  /\ items = <<>>
  /\ dataListeners = <<>>
  /\ notified = <<>>

\* Each call is issued when the one before has settled; the database opens;
\* any statement may fail; the clock has moved on between two readings.
NextDao ==
  \/ \E t \in DaoCalls : Quiet /\ DaoGetAllItems(t)
  \/ \E t \in DaoCalls, id \in Ids : Quiet /\ DaoGetItemById(t, id)
  \/ \E t \in DaoCalls, n \in NewItems : Quiet /\ DaoInsertItem(t, n)
  \/ \E t \in DaoCalls, id \in Ids : Quiet /\ DaoDeleteItem(t, id)
  \/ \E t \in DaoCalls, id \in Ids : Quiet /\ DaoUpdateItem(t, id, ItemC)
  \/ \E t \in DaoCalls : Quiet /\ DaoClearAllItems(t)
  \/ OpenOk
  \/ ExecOk
  \/ \E t \in DaoCalls, ts \in LaterReadings : DaoConnected(t, ts)
  \/ \E t \in DaoCalls : StatementOk(t)
  \/ \E t \in DaoCalls : StatementFail(t)
  \/ \E t \in DaoCalls : SelectOk(t)
  \/ \E t \in DaoCalls : SelectFail(t)
  \/ \E t \in DaoCalls : DaoReturned(t)

SpecDao == InitDao /\ [][NextDao]_vars

----------------------------------------------------------------------------
\* Manager calls that overlap: MaxTasks calls of loadItems, addItem or
\* deleteItem, each issued at any time (also while another is in flight), one
\* screen subscribed, every statement succeeding.  The native calls complete
\* on their own: nothing orders the delivery of one statement's result
\* against that of another.
NextConc ==
  \/ dataListeners = <<>> /\ Subscribe(1)
  \/ \E t \in Tasks : LoadItems(t)
  \/ \E t \in Tasks : AddItem(t, ItemA)
  \/ \E t \in Tasks : DeleteItem(t, 1)
  \/ OpenOk
  \/ ExecOk
  \/ \E t \in Tasks, ts \in LaterReadings : DaoConnected(t, ts)
  \/ \E t \in Tasks : StatementOk(t)
  \/ \E t \in Tasks : MutationReturned(t)
  \/ \E t \in Tasks : SelectOk(t)
  \/ \E t \in Tasks : LoadReturned(t)

SpecConc == InitSeq /\ [][NextConc]_vars

\* The same overlapping calls with nobody subscribed and everything below
\* the manager failing at any point: the open, the schema creation, any
\* statement.
NextErr ==
  \/ \E t \in Tasks : LoadItems(t)
  \/ \E t \in Tasks : AddItem(t, ItemA)
  \/ \E t \in Tasks : DeleteItem(t, 1)
  \/ OpenOk
  \/ OpenFail
  \/ ExecOk
  \/ ExecFail
  \/ \E t \in Tasks, ts \in LaterReadings : DaoConnected(t, ts)
  \/ \E t \in Tasks : StatementOk(t)
  \/ \E t \in Tasks : StatementFail(t)
  \/ \E t \in Tasks : MutationReturned(t)
  \/ \E t \in Tasks : SelectOk(t)
  \/ \E t \in Tasks : SelectFail(t)
  \/ \E t \in Tasks : LoadReturned(t)

SpecErr == InitSeq /\ [][NextErr]_vars

----------------------------------------------------------------------------
\* The provider on its own: MaxCallers calls of getDatabaseConnection(), issued
\* at any time, against storage whose open and schema creation may fail.

InitConn ==
  /\ _db = 0
  /\ _dbPromise = 0
  /\ attempts = <<>>
  /\ tasks = [t \in Callers |-> IdleTask]
  /\ storage = {}
  /\ now = 0
  /\ items = <<>>
  /\ dataListeners = <<>>
  /\ notified = <<>>

NextConn ==
  \/ \E t \in Callers : CallConnection(t)
  \/ OpenOk
  \/ OpenFail
  \/ ExecOk
  \/ ExecFail
  \/ \E t \in Callers : ConnectionSettled(t)

SpecConn == InitConn /\ [][NextConn]_vars

\* A settled promise's reactions are queued as microtasks and always run.
FairSpecConn == SpecConn /\ \A t \in Callers : WF_vars(ConnectionSettled(t))

----------------------------------------------------------------------------
\* Properties of the connection provider

\* Callers still awaiting a promise that has not settled.
PendingCallers == {c \in DOMAIN tasks : tasks[c].pc = "conn" /\ Settled(tasks[c]) = "pending"}
\* Callers that were handed the promise of attempt a (they started it, or
\* called while it was in flight).
Joined(a) == {c \in DOMAIN tasks : tasks[c].pc # "idle" /\ tasks[c].op = "conn" /\ tasks[c].wait = a}
\* The step is a call of getDatabaseConnection() by c.
IsCall(c) == tasks[c].pc = "idle" /\ tasks'[c].pc = "conn"

\* C1: calls of getDatabaseConnection() issued before the first one resolves
\* share one open + INIT_SQL sequence (all pending callers await the same,
\* only in-flight attempt; openDatabaseAsync and INIT_SQL ran once for it) and
\* the callers of one attempt all resolve to the same connection object.
C1_InitCoalescing ==
  /\ \A c1, c2 \in PendingCallers : tasks[c1].wait = tasks[c2].wait
  /\ \A c \in PendingCallers : InFlight = {tasks[c].wait}
  /\ Cardinality(InFlight) <= 1
  /\ (Failed = {} => OpenCount <= 1 /\ ExecCount <= 1)
  /\ \A a \in 1..Len(attempts) : \A c1, c2 \in Joined(a) :
       (tasks[c1].pc = "resolved" /\ tasks[c2].pc = "resolved")
         => /\ tasks[c1].db = tasks[c2].db
            /\ tasks[c1].db = attempts[a].conn
            /\ tasks[c1].db # 0

C1_Witness ==
  /\ OpenCount = 1
  /\ ExecCount = 1
  /\ Cardinality({c \in Joined(1) : tasks[c].pc = "resolved"}) >= 2

\* C2: when the in-flight attempt fails, every call that was handed its
\* promise rejects (with the provider's error, never a handle), a call issued
\* while the attempt is in flight starts no second sequence, and no such
\* call is left pending for ever.
C2_Safety ==
  \A a \in Failed : \A c \in Joined(a) :
    /\ tasks[c].pc \in {"conn", "rejected"}
    /\ tasks[c].db = 0
    /\ tasks[c].pc = "rejected" => tasks[c].err = InitError
C2_JoinStep ==
  \A c \in DOMAIN tasks :
    (IsCall(c) /\ _dbPromise # 0) => (attempts' = attempts /\ tasks'[c].wait = _dbPromise)
C2_FailureLockstep ==
  /\ []C2_Safety
  /\ [][C2_JoinStep]_vars
  /\ \A c \in Callers :
       (tasks[c].pc = "conn" /\ tasks[c].wait \in Failed) ~> (tasks[c].pc = "rejected")

C2_Witness ==
  /\ OpenCount = 1
  /\ attempts[1].st = "execfail"
  /\ Cardinality({c \in Joined(1) : tasks[c].pc = "rejected"}) >= 2

\* C3: a failed attempt clears the pending marker: _dbPromise never names a
\* settled attempt, a call never gets an already rejected promise, and a call
\* made when nothing is cached or pending starts a fresh open.
C3_MarkerCleared == _dbPromise # 0 => _dbPromise \in InFlight
C3_CallStep ==
  \A c \in DOMAIN tasks :
    IsCall(c) =>
      /\ tasks'[c].wait \notin Failed
      /\ (_db = 0 /\ _dbPromise = 0) =>
           /\ Len(attempts') = Len(attempts) + 1
           /\ attempts'[Len(attempts')].st = "open"
           /\ tasks'[c].wait = Len(attempts')
C3_RetryAfterFailure ==
  /\ []C3_MarkerCleared
  /\ [][C3_CallStep]_vars

\* Both kinds of failure happened, and a later call got a connection.
C3_Witness ==
  /\ \E a \in Failed : attempts[a].st = "openfail"
  /\ \E a \in Failed : attempts[a].st = "execfail"
  /\ \E c \in DOMAIN tasks : tasks[c].pc = "resolved" /\ tasks[c].wait = 3

\* C4: once an initialization has succeeded the handle is cached for good: no
\* later step opens the database or runs INIT_SQL again or changes _db, at
\* most one attempt ever succeeds, and every call resolves to that handle.
C4_State ==
  /\ Cardinality(Succeeded) <= 1
  /\ (Succeeded # {}) => (_db # 0 /\ \A a \in Succeeded : attempts[a].conn = _db)
  /\ \A c \in DOMAIN tasks : tasks[c].pc = "resolved" => (tasks[c].db = _db /\ _db # 0)
C4_Step ==
  (_db # 0 \/ Succeeded # {}) =>
     /\ _db' = _db
     /\ attempts' = attempts
     /\ \A c \in DOMAIN tasks : IsCall(c) => (tasks'[c].wait = 0 /\ tasks'[c].db = _db)
C4_HandleCached ==
  /\ []C4_State
  /\ [][C4_Step]_vars

\* A call resolved from the attempt's promise, a later one from the cache,
\* after an earlier attempt had failed.
C4_Witness ==
  /\ Failed # {}
  /\ \E c \in DOMAIN tasks : tasks[c].pc = "resolved" /\ tasks[c].wait # 0
  /\ \E c \in DOMAIN tasks : tasks[c].pc = "resolved" /\ tasks[c].wait = 0

\* C5: the provider's state only moves Uninitialized -> Initializing -> Ready
\* or Initializing -> Uninitialized; Ready is never left; _db and _dbPromise
\* are never both set; at most one attempt is in flight, exactly when the
\* state is Initializing.
C5_Moves ==
  {<<"Uninitialized", "Initializing">>, <<"Initializing", "Ready">>,
   <<"Initializing", "Uninitialized">>}
C5_State ==
  /\ ~(_db # 0 /\ _dbPromise # 0)
  /\ Cardinality(InFlight) <= 1
  /\ (ProviderState = "Initializing") <=> (InFlight # {})
C5_Step ==
  \/ ProviderState' = ProviderState
  \/ <<ProviderState, ProviderState'>> \in C5_Moves
C5_StateMachine ==
  /\ []C5_State
  /\ [][C5_Step]_vars

\* Ready reached by way of a failed attempt: the first caller was rejected,
\* the second got the connection of the second attempt.
C5_Witness ==
  /\ ProviderState = "Ready"
  /\ Len(attempts) = 2
  /\ attempts[1].st = "openfail"
  /\ tasks[1].pc = "rejected"
  /\ tasks[2].pc = "resolved" /\ tasks[2].wait = 2

----------------------------------------------------------------------------
\* Properties of the cache manager

\* The step is subscribe(l).
IsSubscribe(l) == dataListeners' = Append(dataListeners, l)
\* The step resumes call t after `await ItemsDAO.getAllItems()`.
IsLoadReturn(t) == tasks[t].pc = "lret" /\ tasks'[t].pc # "lret"
\* The step resumes call t after getAllItems' `await getDatabaseConnection()` rejected.
IsLoadConnFail(t) ==
  tasks[t].pc = "lconn" /\ Settled(tasks[t]) = "failed" /\ tasks'[t].pc # "lconn"
\* The step resumes call t after `await ItemsDAO.<mutation>(...)`.
IsMutationReturn(t) == tasks[t].pc = "sret" /\ tasks'[t].pc # "sret"
\* Listener l received snapshot x in this step.
Received(l, x) == \E i \in 1..Len(notified') : notified'[i] = <<l, x>>
Without(list, l) == SeqFilter(list, LAMBDA x : x # l)

\* C6: subscribe(l) invokes l once, in the same step, with the current
\* snapshot; from then on l stays registered until a step that does nothing
\* but remove l (its unsubscribe closure), and every successful reload
\* invokes every registered listener with the reloaded snapshot.
C6_Step ==
  /\ \A l \in Listeners : IsSubscribe(l) =>
       /\ notified' = << <<l, items>> >>
       /\ items' = items
  /\ \A l \in Range(dataListeners) :
       \/ l \in Range(dataListeners')
       \/ /\ dataListeners' = Without(dataListeners, l)
          /\ notified' = <<>>
          /\ UNCHANGED <<items, tasks, storage>>
  /\ \A t \in DOMAIN tasks : (IsLoadReturn(t) /\ tasks[t].err = NoError) =>
       \A l \in Range(dataListeners) : Received(l, tasks[t].res)
C6_SubscribeDelivers == [][C6_Step]_vars

\* A broadcast of a non-empty snapshot reached both registered listeners.
C6_Witness ==
  /\ dataListeners = <<1, 2>>
  /\ items # <<>>
  /\ notified = << <<1, items>>, <<2, items>> >>

\* C7 as stated: with records in storage, a subscribing listener is invoked
\* at once with a non-empty snapshot.
C7_Original ==
  [][\A l \in Listeners : (IsSubscribe(l) /\ storage # {}) =>
       (notified' # <<>> /\ notified'[1][2] # <<>>)]_vars

\* C7 as amended: a subscribing listener is invoked at once with the
\* manager's snapshot, which is non-empty exactly when storage holds records
\* and a loadItems() has succeeded (no mutation has occurred: none exists in
\* this specification); before the first successful load it is empty.
C7_Step ==
  \A l \in Listeners : IsSubscribe(l) =>
    /\ notified' = << <<l, items>> >>
    /\ (items # <<>>) <=> (storage # {} /\ \E t \in DOMAIN tasks : tasks[t].pc = "resolved")
C7_SubscribeGetsSnapshot == [][C7_Step]_vars

\* With two listeners registered a single invocation is subscribe's own call:
\* here it carried a non-empty snapshot.
C7_Witness ==
  /\ Len(dataListeners) = 2
  /\ Len(notified) = 1
  /\ notified[1][1] = dataListeners[2]
  /\ notified[1][2] # <<>>
  /\ storage # {}

\* C8: a successful loadItems() sets the snapshot to exactly the sequence
\* its getAllItems() returned (a result of the SELECT) and invokes every
\* listener registered at that moment once with it, in subscription order.
C8_Step ==
  \A t \in DOMAIN tasks : (IsLoadReturn(t) /\ tasks[t].err = NoError) =>
    /\ items' = tasks[t].res
    /\ tasks'[t].pc = "resolved"
    /\ dataListeners' = dataListeners
    /\ Len(notified') = Len(dataListeners)
    /\ \A i \in 1..Len(dataListeners) : notified'[i] = <<dataListeners[i], tasks[t].res>>
C8_Results ==
  \A t \in DOMAIN tasks : (tasks[t].pc = "lret" /\ tasks[t].err = NoError) =>
    /\ Range(tasks[t].res) = storage
    /\ Len(tasks[t].res) = Cardinality(storage)
C8_ReloadBroadcasts ==
  /\ []C8_Results
  /\ [][C8_Step]_vars

\* Two different listeners were handed a two-record snapshot, first
\* subscribed first.
C8_Witness ==
  /\ dataListeners = <<2, 1>>
  /\ Len(items) = 2
  /\ notified = << <<2, items>>, <<1, items>> >>
  /\ \E t \in DOMAIN tasks : tasks[t].pc = "resolved"

\* C9: when getAllItems() fails inside loadItems() (its SELECT, or its
\* getDatabaseConnection()), loadItems() rejects with that error, the
\* snapshot stays as it was and no listener is invoked.
C9_Step ==
  \A t \in DOMAIN tasks :
    /\ (IsLoadReturn(t) /\ tasks[t].err # NoError) =>
         /\ tasks'[t].pc = "rejected"
         /\ tasks'[t].err = tasks[t].err
         /\ items' = items
         /\ notified' = <<>>
    /\ IsLoadConnFail(t) =>
         /\ tasks'[t].pc = "rejected"
         /\ tasks'[t].err = InitError
         /\ items' = items
         /\ notified' = <<>>
C9_FailedReloadKeepsSnapshot == [][C9_Step]_vars

\* A reload failed on its SELECT while a loaded snapshot was held and a
\* listener was registered.
C9_Witness ==
  /\ items # <<>>
  /\ dataListeners # <<>>
  /\ notified = <<>>
  /\ \E t \in DOMAIN tasks :
       tasks[t].pc = "rejected" /\ tasks[t].op = "load" /\ tasks[t].err = SqlError

Mutations == {"add", "update", "delete", "clear"}

\* C10: when the statement of addItem, updateItem, deleteItem or
\* clearAllItems fails, the call rejects with that error straight away:
\* getAllItems() is not called (the call never reaches the reload), the
\* snapshot stays as it was and no listener is invoked.
C10_Step ==
  \A t \in DOMAIN tasks :
    (IsMutationReturn(t) /\ tasks[t].err # NoError) =>
      /\ tasks[t].op \in Mutations
      /\ tasks'[t].pc = "rejected"
      /\ tasks'[t].err = tasks[t].err
      /\ tasks'[t].op = tasks[t].op
      /\ items' = items
      /\ notified' = <<>>
      /\ storage' = storage
C10_NoReloadStep ==
  \A t \in DOMAIN tasks :
    (tasks[t].err # NoError /\ tasks[t].pc = "sret") => tasks'[t].pc \in {"sret", "rejected"}
C10_FailedMutationNoReload ==
  /\ [][C10_Step]_vars
  /\ [][C10_NoReloadStep]_vars

\* clearAllItems() failed on its DELETE: the loaded snapshot and the table
\* still hold the record, the listener was not called.
C10_Witness ==
  /\ items # <<>>
  /\ storage # {}
  /\ dataListeners # <<>>
  /\ notified = <<>>
  /\ \E t \in DOMAIN tasks :
       tasks[t].pc = "rejected" /\ tasks[t].op = "clear" /\ tasks[t].err = SqlError

\* The table holds what the statement of mutation k wrote.
Applied(k, rows) ==
  CASE k.op = "add" ->
         \E r \in rows :
           /\ r.title = k.item.title
           /\ r.description = k.item.description
           /\ r.datetime_at = k.item.datetime_at
           /\ r.updated_at = k.ts
    [] k.op = "update" ->
         \A r \in rows : r.id = k.id =>
           /\ r.title = k.item.title
           /\ r.description = k.item.description
           /\ r.datetime_at = k.item.datetime_at
           /\ r.is_done = BoolToInt(k.item.is_done)
           /\ r.updated_at = k.ts
    [] k.op = "delete" -> \A r \in rows : r.id # k.id
    [] k.op = "clear" -> rows = {}
    [] OTHER -> TRUE
\* Mutation t has run its statement and is in its reload.
Reloading(t) == tasks[t].op \in Mutations /\ tasks[t].pc \in {"lconn", "lstmt", "lret"}

\* C11: when the statement of addItem, updateItem, deleteItem or
\* clearAllItems has succeeded and the reload that follows fails, the call
\* rejects with the reload's error, no listener is invoked, the snapshot is
\* the one from before the mutation (no step of the call changed it) and the
\* table keeps the mutated content: nothing is rolled back, no statement is
\* run again.
C11_State == \A t \in DOMAIN tasks : Reloading(t) => Applied(tasks[t], storage)
C11_Step ==
  \A t \in DOMAIN tasks :
    /\ (tasks[t].op \in Mutations /\ tasks[t].pc \notin {"idle", "resolved", "rejected"}) =>
         (items' # items => tasks'[t].pc = "resolved")
    /\ Reloading(t) =>
         /\ storage' = storage
         /\ tasks'[t].pc \in {"lconn", "lstmt", "lret", "resolved", "rejected"}
    /\ (Reloading(t) /\ IsLoadReturn(t) /\ tasks[t].err # NoError) =>
         /\ tasks'[t].pc = "rejected"
         /\ tasks'[t].err = tasks[t].err
         /\ items' = items
         /\ notified' = <<>>
         /\ Applied(tasks[t], storage')
C11_ReloadFailureKeepsStale ==
  /\ []C11_State
  /\ [][C11_Step]_vars

\* After a successful load, addItem wrote its row and its reload failed: the
\* table has one row more than the snapshot the listener holds.
C11_Witness ==
  /\ items # <<>>
  /\ Cardinality(storage) = Len(items) + 1
  /\ dataListeners # <<>>
  /\ notified = <<>>
  /\ \E t \in DOMAIN tasks :
       tasks[t].pc = "rejected" /\ tasks[t].op = "add" /\ tasks[t].err = SqlError

\* Mutation t has been called and has not settled.
Mutating(t) ==
  tasks[t].op \in Mutations /\ tasks[t].pc \notin {"idle", "resolved", "rejected"}

\* C12: with one manager operation in flight at a time, a successful
\* addItem, updateItem, deleteItem or clearAllItems makes exactly one
\* broadcast, in the step in which it resolves: every entry of the listener
\* list at that moment is invoked once, in order, with the snapshot, which
\* is a reading of the table after the mutation; a listener that is not in
\* the list (it unsubscribed) is not invoked; the other steps of the call
\* invoke nobody (the only other invocations are subscribe's own).
C12_Step ==
  \A t \in DOMAIN tasks : Mutating(t) =>
    IF tasks'[t].pc = "resolved"
      THEN /\ notified' = [i \in 1..Len(dataListeners) |-> <<dataListeners[i], items'>>]
           /\ items' \in SelectAll(storage)
           /\ Applied(tasks[t], storage)
           /\ \A l \in Listeners \ Range(dataListeners) :
                \A i \in 1..Len(notified') : notified'[i][1] # l
      ELSE notified' # <<>> => \E l \in Listeners : IsSubscribe(l)
C12_OneBroadcastPerMutation == [][C12_Step]_vars

\* The first call, an addItem, has resolved and both listeners got the
\* reloaded snapshot with the new row.
C12_Witness ==
  /\ tasks[1].pc = "resolved"
  /\ tasks[1].op = "add"
  /\ tasks[2].pc = "idle"
  /\ \E r \in storage : r.updated_at > 0
  /\ dataListeners = <<1, 2>>
  /\ notified = << <<1, items>>, <<2, items>> >>
  /\ Len(items) = Cardinality(storage)

\* Some loadItems() has succeeded.
Loaded == \E t \in DOMAIN tasks : tasks[t].pc = "resolved"

\* C13 as stated: every snapshot handed to a listener, by subscribe's own
\* call or by a broadcast, was produced by a getAllItems() that succeeded.
C13_Original == [][notified' # <<>> => Loaded']_vars

\* C13 as amended: every snapshot handed to a listener is the manager's
\* snapshot of that moment; a broadcast happens only in the step in which a
\* getAllItems() has succeeded and hands out its result; the snapshot
\* changes only in such a step; until a reload has succeeded the snapshot is
\* the initial empty sequence (which subscribe's own call hands out), and
\* afterwards it is a reading of the table.
C13_State ==
  /\ ~Loaded => items = <<>>
  /\ Loaded => items \in SelectAll(storage)
C13_Step ==
  /\ \A i \in 1..Len(notified') : notified'[i][2] = items'
  /\ (notified' # <<>> /\ ~\E l \in Listeners : IsSubscribe(l)) =>
       \E t \in DOMAIN tasks :
         IsLoadReturn(t) /\ tasks[t].err = NoError /\ items' = tasks[t].res
  /\ items' # items =>
       \E t \in DOMAIN tasks :
         IsLoadReturn(t) /\ tasks[t].err = NoError /\ items' = tasks[t].res
C13_DeliveredIsSnapshot ==
  /\ []C13_State
  /\ [][C13_Step]_vars

\* A listener subscribed after the only reload so far had failed, over a
\* table with a record: it was handed the initial empty snapshot.
C13_Witness ==
  /\ storage # {}
  /\ ~Loaded
  /\ \E t \in DOMAIN tasks : tasks[t].pc = "rejected" /\ tasks[t].err = SqlError
  /\ Len(notified) = 1
  /\ notified[1][2] = <<>>

----------------------------------------------------------------------------
\* Properties of the record access layer

\* Call t is the last one to have settled: the table is as it left it.
LastSettled(t) ==
  /\ tasks[t].pc \in {"resolved", "rejected"}
  /\ \A u \in DOMAIN tasks : u > t => tasks[u].pc = "idle"
\* Call t returned a value from DAO function op.
Returned(t, op) == tasks[t].pc = "resolved" /\ tasks[t].op = op
\* The sequence holds each row of the table once.
AllOf(list, rows) == Range(list) = rows /\ Len(list) = Cardinality(rows)

RoundTrip(t) ==
  /\ t + 1 \in DOMAIN tasks
  /\ Returned(t, "add")
  /\ Returned(t + 1, "get")
  /\ tasks[t + 1].id = tasks[t].res[1]

\* C15 as stated: insertItem(n) then getItemById(returned id) gives a record
\* with n's title, description, is_done and datetime_at, and an updated_at
\* not before the time of the call of insertItem.
C15_Original ==
  \A t \in DOMAIN tasks : RoundTrip(t) =>
    /\ tasks[t + 1].res # Null
    /\ LET r == tasks[t + 1].res[1]
           n == tasks[t].item
       IN /\ r.title = n.title
          /\ r.description = n.description
          /\ r.is_done = BoolToInt(n.is_done)
          /\ r.datetime_at = n.datetime_at
          /\ r.updated_at >= tasks[t].at

\* C15 as amended: the record has n's title, description and datetime_at, the
\* returned id, an updated_at not before the time of the call, the one read
\* from the clock during it, and is_done 0 (false) whatever n.is_done was.
C15_RoundTrip ==
  \A t \in DOMAIN tasks : RoundTrip(t) =>
    /\ tasks[t + 1].res # Null
    /\ LET r == tasks[t + 1].res[1]
           n == tasks[t].item
       IN /\ r.id = tasks[t].res[1]
          /\ r.title = n.title
          /\ r.description = n.description
          /\ r.is_done = 0
          /\ r.datetime_at = n.datetime_at
          /\ r.updated_at >= tasks[t].at
          /\ r.updated_at = tasks[t].ts

\* The round trip of an item with is_done true, a description and a
\* datetime_at, into a table that held a record.
C15_Witness ==
  \E t \in DOMAIN tasks :
    /\ RoundTrip(t)
    /\ tasks[t].item = ItemB
    /\ tasks[t + 1].res # Null
    /\ tasks[t + 1].res[1].id = 2
    /\ tasks[t + 1].res[1].is_done = 0

\* The step in which the statement of call t, a call of op, resolves.
IsStatementOk(t, op) ==
  /\ tasks[t].op = op
  /\ tasks[t].pc = "stmt"
  /\ tasks'[t].pc = "sret"
  /\ tasks'[t].err = NoError
\* The step in which DAO call t returns its value.
IsDaoReturn(t) == tasks[t].pc \in {"sret", "lret"} /\ tasks'[t].pc = "resolved"
\* The rows other than the one with this id.
Others(rows, id) == {r \in rows : r.id # id}

\* C16: updateItem(id, n) on an existing id changes one row, the one with
\* that id: it keeps its id and gets n's is_done, title, description and
\* datetime_at (and the clock's updated_at, not n's; n's id is not used);
\* the other rows stay; the call returns 1.  On an id that is not there
\* the table stays as it is and the call returns 0, without an error.
C16_Step ==
  \A t \in DOMAIN tasks :
    /\ IsStatementOk(t, "update") =>
         LET id == tasks[t].id
             n == tasks[t].item
         IN IF \E r \in storage : r.id = id
              THEN /\ tasks'[t].res = <<1>>
                   /\ Others(storage', id) = Others(storage, id)
                   /\ Cardinality(storage') = Cardinality(storage)
                   /\ \E r \in storage' :
                        /\ r.id = id
                        /\ r.is_done = BoolToInt(n.is_done)
                        /\ r.title = n.title
                        /\ r.description = n.description
                        /\ r.datetime_at = n.datetime_at
                        /\ r.updated_at = tasks[t].ts
              ELSE /\ tasks'[t].res = <<0>>
                   /\ storage' = storage
    /\ (IsDaoReturn(t) /\ tasks[t].op = "update") =>
         /\ tasks'[t].res = tasks[t].res
         /\ storage' = storage
C16_Update == [][C16_Step]_vars

\* The record of an earlier run was updated with the object TaskItem passes
\* (it carries another id and updated_at): 1 came back, the row kept its
\* id; an update of an id that is not there returned 0.
C16_Witness ==
  /\ \E t \in DOMAIN tasks : Returned(t, "update") /\ tasks[t].id = 1 /\ tasks[t].res = <<1>>
  /\ \E t \in DOMAIN tasks : Returned(t, "update") /\ tasks[t].id = 2 /\ tasks[t].res = <<0>>
  /\ \E r \in storage :
       r.id = 1 /\ r.title = "C" /\ r.is_done = 1 /\ r.updated_at # ItemC.updated_at
  /\ Cardinality(storage) = 1

\* Call t is deleteItem(id), it returned, and the next call is getItemById
\* of the same id, which returned.
DeleteThenGet(t) ==
  /\ t + 1 \in DOMAIN tasks
  /\ Returned(t, "delete")
  /\ Returned(t + 1, "get")
  /\ tasks[t + 1].id = tasks[t].id

\* C17: deleteItem(id) on an existing id removes that row and no other and
\* returns 1; on an id that is not there it changes nothing and returns 0,
\* without an error; a getItemById(id) that follows returns null.
C17_Step ==
  \A t \in DOMAIN tasks :
    /\ IsStatementOk(t, "delete") =>
         IF \E r \in storage : r.id = tasks[t].id
           THEN /\ tasks'[t].res = <<1>>
                /\ storage' = Others(storage, tasks[t].id)
                /\ Cardinality(storage') = Cardinality(storage) - 1
           ELSE /\ tasks'[t].res = <<0>>
                /\ storage' = storage
    /\ (IsDaoReturn(t) /\ tasks[t].op = "delete") =>
         /\ tasks'[t].res = tasks[t].res
         /\ storage' = storage
C17_Lookup == \A t \in DOMAIN tasks : DeleteThenGet(t) => tasks[t + 1].res = Null
C17_Delete ==
  /\ []C17_Lookup
  /\ [][C17_Step]_vars

\* A record was deleted (1 came back), the lookup that followed returned
\* null, and a second delete of the same id returned 0.
C17_Witness ==
  /\ DeleteThenGet(1)
  /\ tasks[1].res = <<1>>
  /\ tasks[2].res = Null
  /\ Returned(3, "delete")
  /\ tasks[3].id = tasks[1].id
  /\ tasks[3].res = <<0>>

\* C18 as stated: an id insertItem returns is larger than every id an
\* earlier insertItem returned, also when the records were deleted or
\* cleared in between.
C18_Original ==
  \A t, u \in DOMAIN tasks :
    (t < u /\ Returned(t, "add") /\ Returned(u, "add")) => tasks[u].res[1] > tasks[t].res[1]

\* The step in which insertItem or updateItem of call t has got its
\* connection, reads the clock and issues its statement.
IsClockRead(t) ==
  /\ tasks[t].op \in {"add", "update"}
  /\ tasks[t].pc = "conn"
  /\ tasks'[t].pc = "stmt"

\* C19: a row is written (added, or changed) only by the statement of an
\* insertItem or updateItem, and its updated_at is then the clock value
\* that call read, a value read after the call was made and not the
\* updated_at the caller's object carries; the row updateItem rewrites gets
\* an updated_at larger than the one it had (the clock advances between two
\* readings in this specification).
C19_Step ==
  /\ \A r \in storage' \ storage :
       \E t \in DOMAIN tasks :
         /\ IsStatementOk(t, "add") \/ IsStatementOk(t, "update")
         /\ r.updated_at = tasks[t].ts
  /\ \A t \in DOMAIN tasks : IsClockRead(t) =>
       /\ tasks'[t].ts = now'
       /\ now' > now
       /\ now >= tasks[t].at
  /\ \A t \in DOMAIN tasks : IsStatementOk(t, "update") =>
       \A r \in storage : r.id = tasks[t].id =>
         \E w \in storage' :
           /\ w.id = r.id
           /\ w.updated_at > r.updated_at
           /\ w.updated_at = tasks[t].ts
           /\ w.updated_at # tasks[t].item.updated_at
C19_State == \A r \in storage : r.updated_at <= now
C19_UpdatedAt ==
  /\ []C19_State
  /\ [][C19_Step]_vars

\* A record inserted in this run was updated afterwards with an object
\* carrying its own updated_at: the row holds the later clock reading.
C19_Witness ==
  \E t \in DOMAIN tasks :
    /\ t + 1 \in DOMAIN tasks
    /\ Returned(t, "add")
    /\ Returned(t + 1, "update")
    /\ tasks[t + 1].res = <<1>>
    /\ tasks[t + 1].id = tasks[t].res[1]
    /\ tasks[t + 1].ts > tasks[t].ts
    /\ \E r \in storage : r.id = tasks[t + 1].id /\ r.updated_at = tasks[t + 1].ts

----------------------------------------------------------------------------
\* Properties of the cache manager, continued

\* C20: a clearAllItems() that succeeds, with no other call in flight,
\* leaves the table empty (whatever it held), sets the snapshot to the empty
\* sequence and hands the empty snapshot to every listener in the list.
C20_Step ==
  \A t \in DOMAIN tasks :
    /\ IsStatementOk(t, "clear") => storage' = {}
    /\ (tasks[t].op = "clear" /\ Mutating(t) /\ tasks'[t].pc = "resolved") =>
         /\ storage = {}
         /\ storage' = {}
         /\ items' = <<>>
         /\ notified' = [i \in 1..Len(dataListeners) |-> <<dataListeners[i], <<>> >>]
C20_ClearAll == [][C20_Step]_vars

\* addItem had succeeded, so the table held a record; clearAllItems then
\* emptied it and both listeners were handed the empty snapshot.
C20_Witness ==
  /\ tasks[1].pc = "resolved"
  /\ tasks[1].op = "add"
  /\ tasks[2].pc = "resolved"
  /\ tasks[2].op = "clear"
  /\ storage = {}
  /\ items = <<>>
  /\ dataListeners = <<1, 2>>
  /\ notified = << <<1, <<>> >>, <<2, <<>> >> >>

----------------------------------------------------------------------------
\* Errors across the layers

\* The step resumes call t after `await getDatabaseConnection()` rejected.
IsConnectionFail(t) ==
  /\ tasks[t].pc \in {"conn", "lconn"}
  /\ Settled(tasks[t]) = "failed"
  /\ tasks'[t].pc \notin {"conn", "lconn"}
\* The step resumes call t after its statement's promise rejected.
IsStatementFailReturn(t) ==
  /\ tasks[t].pc \in {"sret", "lret"}
  /\ tasks[t].err # NoError
  /\ tasks'[t].pc # tasks[t].pc

\* C21 as stated: in the provider, the DAO and the manager alike an error
\* from the layer below reaches the caller as the identical value: a call
\* whose initialization failed rejects with the error openDatabaseAsync or
\* execAsync rejected with, a call whose statement failed with the
\* statement's error.
C21_OriginalStep ==
  \A t \in DOMAIN tasks :
    /\ IsConnectionFail(t) =>
         /\ tasks'[t].pc = "rejected"
         /\ tasks'[t].err = Caught(tasks[t])
    /\ IsStatementFailReturn(t) =>
         /\ tasks'[t].pc = "rejected"
         /\ tasks'[t].err = tasks[t].err
C21_Original == [][C21_OriginalStep]_vars

\* C21 as amended: the DAO and the manager pass an error on unchanged and no
\* layer swallows one (a failed call rejects, and a call resolves only from
\* a reload that succeeded); the provider replaces the error of a failed open
\* or schema creation by its own "Failed to initialize database connection."
\* error, and that is the value the DAO's and the manager's caller gets.
C21_Step ==
  \A t \in DOMAIN tasks :
    /\ IsConnectionFail(t) =>
         /\ tasks'[t].pc = "rejected"
         /\ tasks'[t].err = InitError
         /\ tasks'[t].err # Caught(tasks[t])
         /\ Caught(tasks[t]) \in {OpenError, ExecError}
    /\ IsStatementFailReturn(t) =>
         /\ tasks'[t].pc = "rejected"
         /\ tasks'[t].err = tasks[t].err
         /\ tasks'[t].err = SqlError
    /\ (tasks[t].pc # "resolved" /\ tasks'[t].pc = "resolved") =>
         /\ tasks[t].pc = "lret"
         /\ tasks[t].err = NoError
         /\ Settled(tasks[t]) = "ok"
C21_ErrorsPassThrough == [][C21_Step]_vars

\* An addItem was rejected with the provider's error after the schema
\* creation had failed, and a later call, whose initialization succeeded,
\* was rejected with its statement's error.
C21_Witness ==
  /\ tasks[1].pc = "rejected"
  /\ tasks[1].op = "add"
  /\ tasks[1].err = InitError
  /\ attempts[1].st = "execfail"
  /\ tasks[2].pc = "rejected"
  /\ tasks[2].err = SqlError

\* What an error value tells its receiver about the DAO call that failed.
\* The errors in flight are the driver's (a statement's) and the provider's:
\* plain Error objects made below the DAO, which adds nothing to them (the
\* operation and the id go to console.error only).
ErrorInfo(e) == [kind |-> "Error", op |-> "none", id |-> 0]
\* The ItemsDAO operations that take an id.
WithId == {"get", "update", "delete"}

\* C22 as stated: a DAO call whose statement failed rejects with a
\* StorageOperationError that names the operation and, for getItemById,
\* updateItem and deleteItem, the id.
C22_OriginalStep ==
  \A t \in DOMAIN tasks : IsStatementFailReturn(t) =>
    /\ tasks'[t].pc = "rejected"
    /\ ErrorInfo(tasks'[t].err) =
         [kind |-> "StorageOperationError", op |-> tasks[t].op,
          id |-> IF tasks[t].op \in WithId THEN tasks[t].id ELSE 0]
C22_Step ==
  \A t \in DOMAIN tasks :
    /\ IsStatementFailReturn(t) =>
         /\ tasks'[t].pc = "rejected"
         /\ tasks'[t].err = tasks[t].err
         /\ tasks'[t].err = SqlError
         /\ ErrorInfo(tasks'[t].err).op # tasks[t].op
         /\ storage' = storage
    /\ tasks[t].pc \in {"sret", "lret"} => tasks'[t].pc \notin {"stmt", "lstmt"}
    /\ tasks[t].pc = "rejected" => tasks'[t] = tasks[t]
Issued(t) == tasks[t].pc \in {"stmt", "sret", "lstmt", "lret"}
\* The step issues the statement of call t.
IsIssue(t) == tasks[t].pc \in {"conn", "lconn"} /\ tasks'[t].pc \in {"stmt", "lstmt"}
\* The step is the engine running the statement of call t.
IsExecute(t) ==
  \/ tasks[t].pc = "stmt" /\ tasks'[t].pc = "sret"
  \/ tasks[t].pc = "lstmt" /\ tasks'[t].pc = "lret"

\* C23: a DAO statement is issued, and run, only on the connection of an
\* initialization whose INIT_SQL completed, whether the call came before,
\* during or after that initialization (the table changes only after one
\* succeeded); a call whose initialization failed rejects with the
\* provider's error and its statement is never issued.
C23_State ==
  \A t \in DOMAIN tasks : Issued(t) =>
    /\ tasks[t].db # 0
    /\ \E a \in Succeeded : attempts[a].conn = tasks[t].db
C23_Step ==
  /\ storage' # storage => Succeeded # {}
  /\ \A t \in DOMAIN tasks :
       /\ IsIssue(t) =>
            /\ Settled(tasks[t]) = "ok"
            /\ tasks[t].wait # 0 => attempts[tasks[t].wait].st = "ok"
            /\ tasks[t].wait = 0 => tasks[t].db \in {attempts[a].conn : a \in Succeeded}
       /\ IsExecute(t) => \E a \in Succeeded : attempts[a].conn = tasks[t].db
       /\ IsConnectionFail(t) =>
            /\ tasks'[t].pc = "rejected"
            /\ tasks'[t].err = Rejection(tasks[t])
            /\ storage' = storage
       /\ (Settled(tasks[t]) = "failed" /\ tasks[t].pc \in {"conn", "lconn"}) => ~Issued(t)'
C23_SchemaBeforeStatements ==
  /\ []C23_State
  /\ [][C23_Step]_vars

\* addItem started the initialization and deleteItem was called while it was
\* in flight; both statements were issued after INIT_SQL had completed, on
\* its connection.
C23_Witness ==
  /\ tasks[1].op = "add"
  /\ tasks[2].op = "delete"
  /\ tasks[1].wait = 1
  /\ tasks[2].wait = 1
  /\ Issued(1)
  /\ Issued(2)
  /\ attempts[1].st = "ok"
  /\ Len(attempts) = 1

----------------------------------------------------------------------------
\* Properties of overlapping manager calls

\* The addItem calls whose INSERT has run.
Inserted ==
  {t \in DOMAIN tasks :
     tasks[t].op = "add" /\ tasks[t].pc \in {"sret", "lconn", "lstmt", "lret", "resolved"}}
\* The rows written by addItem in this run (the rows of an earlier run are
\* OldRow and OldRow2).
NewRows(rows) == {r \in rows : r.title = ItemA.title}

\* C24: addItem calls are not serialized, and each INSERT that runs, with
\* whatever other call in flight, adds one row under an id no row of the
\* table has and loses none; so with addItem calls only in flight, every
\* insert that ran is in the table under its own id.  (The interleaving in
\* which the subscriber is handed one new record and then both is the
\* witness.)
C24_State ==
  (\A t \in DOMAIN tasks : tasks[t].op \in {"none", "add"}) =>
    /\ Cardinality(NewRows(storage)) = Cardinality(Inserted)
    /\ \A r, w \in storage : r.id = w.id => r = w
C24_Step ==
  \A t \in DOMAIN tasks : IsStatementOk(t, "add") =>
    /\ storage \subseteq storage'
    /\ Cardinality(storage') = Cardinality(storage) + 1
    /\ \A r \in storage : r.id # tasks'[t].res[1]
    /\ \E w \in storage' \ storage : w.id = tasks'[t].res[1]
C24_ConcurrentAdds ==
  /\ []C24_State
  /\ [][C24_Step]_vars

\* Two addItem calls were in flight together and both inserts are in the
\* table.  The first call has just resolved and handed the subscriber a
\* snapshot with one of the new records only; the second call's reload has
\* read both and is about to hand them over.
C24_Witness ==
  /\ dataListeners = <<1>>
  /\ tasks[1].op = "add"
  /\ tasks[1].pc = "resolved"
  /\ notified = << <<1, items>> >>
  /\ Cardinality(NewRows(storage)) = 2
  /\ Cardinality(NewRows(Range(items))) = 1
  /\ tasks[2].op = "add"
  /\ tasks[2].pc = "lret"
  /\ tasks[2].err = NoError
  /\ NewRows(Range(tasks[2].res)) = NewRows(storage)

\* C25 as stated: once the overlapping manager calls have all succeeded and
\* none is in flight, the snapshot is the table's content as getAllItems()
\* would return it, and it is what the subscriber was handed last.
C25_Original ==
  (Quiet /\ \A t \in DOMAIN tasks : tasks[t].pc = "resolved") =>
    /\ items \in SelectAll(storage)
    /\ (dataListeners # <<>> /\ notified # <<>>) =>
         notified[Len(notified)][2] \in SelectAll(storage)

----------------------------------------------------------------------------
\* Listeners that act inside their callback (managers/ItemsManager.ts)

\* A listener function that is subscribed from inside another listener's
\* callback.
LateListener == 3
\* What a listener throws.
ListenerError == "ListenerError"

\* What a listener does when it is invoked, before it returns: nothing, throw,
\* call the unsubscribe closure of listener l, or subscribe LateListener.
Reactions(list) ==
  {<<"return", 0>>, <<"throw", 0>>, <<"subscribe", LateListener>>}
    \cup {<<"unsubscribe", l>> : l \in Range(list)}

\* The reactions of one broadcast, one per entry of the list: LateListener is
\* subscribed at most once, and only while it is not in the list.
ReactionsOf(list) ==
  {r \in [1..Len(list) -> Reactions(list)] :
     /\ Cardinality({i \in 1..Len(list) : r[i][1] = "subscribe"}) <= 1
     /\ LateListener \in Range(list) => \A i \in 1..Len(list) : r[i][1] # "subscribe"}

\* One listener's reaction during dataListeners.forEach(...).  b.arr is the
\* array forEach was called on, b.field what this.dataListeners holds, b.same
\* whether they are still one object: push() changes the array in place,
\* filter() makes a new array and the closure assigns it to the field.
\* subscribe() calls the new listener at once (it just returns).
React(b, r, snapshot) ==
  CASE r[1] = "throw" -> [b EXCEPT !.thrown = TRUE]
    [] r[1] = "unsubscribe" ->
         [b EXCEPT !.field = SeqFilter(b.field, LAMBDA x : x # r[2]), !.same = FALSE]
    [] r[1] = "subscribe" ->
         [b EXCEPT !.field = Append(b.field, r[2]),
                   !.arr = IF b.same THEN Append(b.arr, r[2]) ELSE b.arr,
                   !.calls = Append(b.calls, <<r[2], snapshot>>)]
    [] OTHER -> b

\* this.dataListeners.forEach(listener => listener(this.items)):
\* Array.prototype.forEach fixes the range of indices before the first call
\* (elements appended later are not visited) and reads each element from the
\* array it was called on; an exception in a callback ends it.
Start(list) == [arr |-> list, field |-> list, same |-> TRUE, calls |-> <<>>, thrown |-> FALSE]
\* One turn of the loop: the callback is called with the element, then reacts.
Visit(b, l, r, snapshot) ==
  IF b.thrown THEN b ELSE React([b EXCEPT !.calls = Append(@, <<l, snapshot>>)], r, snapshot)
VisitFixed(b, i, r, snapshot) == Visit(b, b.arr[i], r, snapshot)
ForEachMutLive(list, reactions, snapshot) ==
  LET F[i \in 0..(Len(list) + 1)] ==
        IF i = 0 THEN Start(list)
        ELSE IF i > Len(F[i - 1].field) THEN F[i - 1]
        ELSE Visit(F[i - 1], F[i - 1].field[i],
                   IF i <= Len(list) THEN reactions[i] ELSE <<"return", 0>>, snapshot)
  IN F[Len(list) + 1]
ForEach(list, reactions, snapshot) ==
  LET F[i \in 0..Len(list)] ==
        IF i = 0 THEN Start(list)
        ELSE VisitFixed(F[i - 1], i, reactions[i], snapshot)
  IN F[Len(list)]

\* this.items = <result>; this.notifyDataChange(); with listeners that react.
\* An exception of a listener leaves notifyDataChange inside loadItems' try:
\* the catch block rethrows it, and so does the calling mutation's.
Broadcast(t, b) ==
  /\ notified' = b.calls
  /\ dataListeners' = b.field
  /\ tasks' = [tasks EXCEPT ![t] =
       IF b.thrown THEN Rejected(tasks[t], ListenerError) ELSE Resolved(tasks[t])]
LoadSucceededWith(t, reactions) ==
  /\ items' = tasks[t].res
  /\ Broadcast(t, ForEach(dataListeners, reactions, tasks[t].res))

\* loadItems resumes after `await ItemsDAO.getAllItems()`.
LoadReturnedWith(t, reactions) ==
  /\ tasks[t].pc = "lret"
  /\ Resumable = {}
  /\ IF tasks[t].err # NoError
       THEN LoadFailed(t) /\ UNCHANGED dataListeners
       ELSE LoadSucceededWith(t, reactions)
  /\ Len(dataListeners') <= MaxSubs
  /\ UNCHANGED <<provVars, storage, now>>

\* Reloads and additions, one call at a time, heard by listeners that may
\* react inside their callback; the database opens and answers.
NextReact ==
  \/ \E l \in Listeners : Subscribe(l)
  \/ \E l \in Listeners : Unsubscribe(l)
  \/ \E t \in Tasks : Quiet /\ LoadItems(t)
  \/ \E t \in Tasks : Quiet /\ AddItem(t, ItemA)
  \/ OpenOk
  \/ ExecOk
  \/ \E t \in Tasks : DaoConnected(t, now)
  \/ \E t \in Tasks : StatementOk(t)
  \/ \E t \in Tasks : MutationReturned(t)
  \/ \E t \in Tasks : SelectOk(t)
  \/ \E t \in Tasks :
       /\ tasks[t].pc = "lret"
       /\ \E r \in ReactionsOf(dataListeners) : LoadReturnedWith(t, r)

SpecReact == InitSeq /\ [][NextReact]_vars

\* The invocations of the step whose listener is in the list.
CallsOf(list) == SeqFilter(notified', LAMBDA c : c[1] \in Range(list))
\* How often listener l is invoked in the step.
TimesInvoked(l) == Cardinality({i \in 1..Len(notified') : notified'[i][1] = l})

\* C26: a broadcast in which no listener throws invokes the listeners that
\* were in the list when it started, each entry once and in list order, with
\* the new snapshot, whatever unsubscribe closures its listeners call and
\* whether or not one of them subscribes another listener; a listener
\* subscribed during the broadcast is invoked once, by subscribe() itself.
C26_Step ==
  \A t \in DOMAIN tasks :
    (IsLoadReturn(t) /\ tasks[t].err = NoError /\ tasks'[t].pc = "resolved") =>
      /\ CallsOf(dataListeners) =
           [i \in 1..Len(dataListeners) |-> <<dataListeners[i], items'>>]
      /\ \A i \in 1..Len(notified') : notified'[i][2] = items'
      /\ LateListener \notin Range(dataListeners) =>
           TimesInvoked(LateListener) =
             IF LateListener \in Range(dataListeners') THEN 1 ELSE 0
C26_BroadcastOverStartList == [][C26_Step]_vars

\* A broadcast over the list <<1, 2>> in which listener 1 called its own
\* unsubscribe closure and listener 2 subscribed LateListener: 1 and 2 were
\* both invoked, in that order, and LateListener once.
C26_Witness ==
  /\ dataListeners = <<2, LateListener>>
  /\ items # <<>>
  /\ notified = << <<1, items>>, <<2, items>>, <<LateListener, items>> >>
  /\ \E t \in DOMAIN tasks : tasks[t].pc = "resolved"

\* C28 as stated: when a listener throws during a broadcast, the entries
\* after it are still invoked with the new snapshot and the call whose
\* statement and reload succeeded resolves.
C28_OriginalStep ==
  \A t \in DOMAIN tasks :
    (IsLoadReturn(t) /\ tasks[t].err = NoError) =>
      /\ tasks'[t].pc = "resolved"
      /\ \A i \in 1..Len(dataListeners) : Received(dataListeners[i], items')
C28_Original == [][C28_OriginalStep]_vars

\* The step takes entries off the listener list (only an unsubscribe
\* closure does).
IsUnsubscribe == Len(dataListeners') < Len(dataListeners)
\* The list without its i-th entry.
RemoveAt(list, i) == [j \in 1..(Len(list) - 1) |-> IF j < i THEN list[j] ELSE list[j + 1]]

\* C27 as stated: an unsubscribe closure removes one subscription, its own;
\* every other entry of the list, one made with the same listener function
\* included, stays where it was.
C27_OriginalStep ==
  IsUnsubscribe =>
    \E i \in 1..Len(dataListeners) : dataListeners' = RemoveAt(dataListeners, i)
C27_Original == [][C27_OriginalStep]_vars

----------------------------------------------------------------------------
\* The view-binding hook of one mounted screen (hooks/use-database.ts,
\* hooks/use-items-manager.ts) and what the screen shows (DataLoader.tsx)

\* The calls one mounted screen makes: useDatabase's getDatabaseConnection()
\* at mount, then calls of loadItems().
MaxHookCalls == 3
HookCalls == 1..MaxHookCalls
\* The dataListener the hook subscribes (newItems => setItems(newItems)).
HookListener == 1

\* The screen mounts: useDatabase's effect calls getDatabaseConnection()
\* (call 1), the initial-load effect finds isDBReady false and sets
\* isInitialLoading to true, which it is, and the subscribe effect
\* subscribes the hook's listener.
Mount ==
  /\ NextToCall(1)
  /\ getDatabaseConnection(1, [IdleTask EXCEPT !.op = "conn", !.pc = "conn"])
  /\ dataListeners' = Pushed(HookListener)
  /\ notified' = InitialCall(HookListener)
  /\ UNCHANGED <<storage, now, items>>

\* useState(false), set by getDatabaseConnection().then(() => setIsDBReady(true))
\* .catch(() => setIsDBReady(false)) of the mount effect, which has no
\* dependencies and runs once.
isDBReady == tasks[1].op = "conn" /\ tasks[1].pc = "resolved"

\* useState(true), set to false in the finally() of the load the initial-load
\* effect starts, whether that load succeeded or failed; the effect's other
\* branch sets it to true.
isInitialLoading ==
  ~\E t \in DOMAIN tasks : tasks[t].op = "initial" /\ tasks[t].pc \in {"resolved", "rejected"}

\* isDBConnectionReady: isDBReady && !isInitialLoading
isDBConnectionReady == isDBReady /\ ~isInitialLoading

\* What DataLoader (and the screens' own early returns) renders.
View ==
  IF isInitialLoading THEN "spinner"
  ELSE IF ~isDBConnectionReady THEN "error"
  ELSE "content"

\* The initial-load effect, run again because isDBReady changed to true:
\* manager.loadItems().catch(() => {}).finally(() => setIsInitialLoading(false)).
EffectLoadItems(t) ==
  /\ isDBReady
  /\ \A u \in DOMAIN tasks : tasks[u].op # "initial"
  /\ NextToCall(t)
  /\ getDatabaseConnection(t, [IdleTask EXCEPT !.op = "initial", !.pc = "lconn"])
  /\ notified' = <<>>
  /\ UNCHANGED <<storage, now, mgrVars>>

\* The screen calls the loadItems the hook returned (manager.loadItems()),
\* any time after it mounted.
RetryLoadItems(t) ==
  /\ tasks[1].pc # "idle"
  /\ LoadItems(t)

InitHook ==
  /\ _db = 0
  /\ _dbPromise = 0
  /\ attempts = <<>>
  /\ tasks = [t \in HookCalls |-> IdleTask]
  /\ storage \in {{}, {OldRow}, {OldRow, OldRow2}}
  /\ now = 0
  /\ items = <<>>
  /\ dataListeners = <<>>
  /\ notified = <<>>

NextHook ==
  \/ Mount
  \/ OpenOk
  \/ OpenFail
  \/ ExecOk
  \/ ExecFail
  \/ \E t \in HookCalls : ConnectionSettled(t)
  \/ \E t \in HookCalls : EffectLoadItems(t)
  \/ \E t \in HookCalls : RetryLoadItems(t)
  \/ \E t \in HookCalls : DaoConnected(t, now)
  \/ \E t \in HookCalls : SelectOk(t)
  \/ \E t \in HookCalls : SelectFail(t)
  \/ \E t \in HookCalls : LoadReturned(t)

SpecHook == InitHook /\ [][NextHook]_vars

\* The initialization the mount started has failed and the hook has heard of it.
MountFailed == tasks[1].op = "conn" /\ tasks[1].pc = "rejected"

\* C29 as stated: when the initialization fails at mount, the hook comes to
\* isInitialLoading = false and isDBConnectionReady = false, and the screen
\* shows the connection-error view: so it has, once the failure has reached
\* the hook and no call is in flight (nothing is left that could change the
\* hook's state).
C29_Original ==
  (MountFailed /\ Quiet) =>
    /\ ~isInitialLoading
    /\ ~isDBConnectionReady
    /\ View = "error"

\* C30 as stated: after the initialization failed at mount, once a later
\* loadItems() of the screen has succeeded the hook reports
\* isDBConnectionReady = true and isInitialLoading = false and the screen
\* shows the items.
C30_Original ==
  (/\ MountFailed
   /\ Quiet
   /\ \E t \in DOMAIN tasks : tasks[t].op = "load" /\ tasks[t].pc = "resolved") =>
    /\ isDBConnectionReady
    /\ ~isInitialLoading
    /\ View = "content"

====
